---- MODULE Spec2Model ----
(***************************************************************************)
(* JAIB role-play bot: the conversation window manager                     *)
(* (src/src/conversation_manager.py), the main loop that drives it         *)
(* (src/main.py), the slash commands (src/src/command_handler.py), the     *)
(* memory store the turn reads and writes (src/src/memory.py) and the      *)
(* conversation log (src/src/conversation_logger.py).                      *)
(*                                                                         *)
(* Eleven specifications:                                                  *)
(*   SpecCM     the ConversationManager methods called in any order by a   *)
(*              client of the class;                                       *)
(*   Spec       the session run by RoleplayBotApp.run: the intro message,  *)
(*              then one _process_user_input call per line typed;          *)
(*   SpecTurns  the sessions of Spec that start with a well-filled memory  *)
(*              file (or none) and consist of turns and mode toggles.      *)
(*   SpecMM     the MemoryManager methods append_memory,                   *)
(*              load_all_memories and load_recent_memories called in any   *)
(*              order on a store that starts without a file;               *)
(*   SpecMMEdited  SpecMM with the memory file also written from outside   *)
(*              the program (a line that is no JSON);                      *)
(*   SpecSearch append_memory, load_all_memories and search_memories;      *)
(*   SpecSearchEdited  append_memory and search_memories on a file that    *)
(*              another process rewrites (a line removed, a record added); *)
(*   SpecSearchShort  SpecSearchEdited's store, loaded and searched with   *)
(*              queries that hold short words only;                        *)
(*   SpecLog    the sessions of Spec made of turns, /reset and /rewind,    *)
(*              with the entries of the conversation log followed;         *)
(*   SpecExtract  extract_auto_memories applied to a response;             *)
(*   SpecAdds   add_message called again and again, with no reset or       *)
(*              rewind in between.                                         *)
(***************************************************************************)
EXTENDS Integers, Sequences, FiniteSets, TLC

VARIABLES
    messages,              \* ConversationManager.messages
    turn_count,            \* ConversationManager.turn_count
    conversation_summary,  \* ConversationManager.conversation_summary
    system_prompt,         \* ConversationManager.system_prompt
    use_memory,            \* ConversationManager.use_memory (not args.no_memory)
    nsfw_mode,             \* RoleplayBotApp.nsfw_mode
    romantic_mode,         \* RoleplayBotApp.romantic_mode
    pc,                    \* where RoleplayBotApp.run stands: "intro", "loop", "exit"
                           \* ("client" in SpecCM, which has no main loop)
    detours,               \* lines typed so far that were no plain exchange
    memfile,               \* the lines of the memory file, or NoFile
    mtime,                 \* the memory file's modification time
    memory_cache,          \* MemoryManager.memory_cache
    cache_timestamp,       \* MemoryManager.cache_timestamp
    keywords_index,        \* MemoryManager.keywords_index
    role_script,           \* SpecCM: the roles the client passes to add_message
    chat_log,              \* the entries of the conversation log file, or
                           \* NotFollowed where the log is left out
    op,                    \* the operation that produced this state
    arg,                   \* what that operation was given (NoPrompt if nothing)
    ret                    \* what that operation returned ("None" if nothing)

vars == <<messages, turn_count, conversation_summary, system_prompt, use_memory,
          nsfw_mode, romantic_mode, pc, detours, memfile, mtime, memory_cache,
          cache_timestamp, keywords_index, role_script, chat_log, op, arg, ret>>

conv == <<messages, turn_count, conversation_summary>>
store == <<memfile, mtime, memory_cache, cache_timestamp, keywords_index>>
modes == <<nsfw_mode, romantic_mode>>

-----------------------------------------------------------------------------
(* Bounds of the model and constants of the program.                       *)

\* Spec: no turn starts once turn_count has reached this value.
MaxTurnCount == 52
\* SpecCM: add_message is not called once turn_count has reached this value.
MaxClientTurns == 52
\* SpecAdds: add_message is not called once turn_count has reached this value.
MaxAddCalls == 110
\* Records in the memory file a session of Spec starts with, if it has one.
SmallSeed == 1
\* Records in the memory file SpecCM and SpecTurns start with.
LargeSeed == 9
\* SpecMM: append_memory is not called once the file holds this many lines.
MaxLines == 3
\* SpecMMEdited: lines that json.loads rejects, put in the file from outside.
MaxMalformed == 1
\* SpecSearchEdited: writes to the memory file, by append_memory and from
\* outside, after which the file is left alone.
MaxStoreWrites == 3
\* SpecExtract: sentences in the response extract_auto_memories is given.
MaxSentences == 5
\* Lines a session may hold that are no plain exchange (a turn whose reply
\* comes and leaves the memory file alone, or a /rewind that removes one).
MaxDetours == 1
MaxRewinds == 1

max_context_length == 50
KeepRecent == 20
MinExchange == 3
MemLimitBase == 10
MemLimitStep == 5
MemLimitMin == 3
MemLimitMax == 8

-----------------------------------------------------------------------------
(* Python list operations.                                                 *)

Min(a, b) == IF a < b THEN a ELSE b
Max(a, b) == IF a > b THEN a ELSE b

\* s[-n:]
LastN(s, n) == SubSeq(s, Max(1, Len(s) - n + 1), Len(s))
\* s[:n]
FirstN(s, n) == SubSeq(s, 1, Min(n, Len(s)))
\* s[1:-n+1], a slice that runs one message into the recent ones
BetweenOverlapping(s, n) == SubSeq(s, 2, Len(s) - n + 1)
\* s[1:-n]
Between(s, n) == SubSeq(s, 2, Len(s) - n)
\* s after s.pop()
Popped(s) == SubSeq(s, 1, Len(s) - 1)
\* [f(x) for x in s if x["role"] == role], as the set Python builds from it
ContentsOf(s, role) == {s[i].content : i \in {j \in 1..Len(s) : s[j].role = role}}

-----------------------------------------------------------------------------
(* Messages.                                                               *)

Roles == {"system", "user", "assistant"}

Msg(role, content) == [role |-> role, content |-> content]

\* build_system_prompt: the boundaries section differs with nsfw_mode, the
\* romantic section is present or absent with romantic_mode, the rest is the
\* persona, so the prompt is a one-to-one function of the two flags.
build_system_prompt(nsfw, romantic) ==
    [kind |-> "prompt", nsfw |-> nsfw, romantic |-> romantic]

Prompts == {build_system_prompt(n, r) : n \in BOOLEAN, r \in BOOLEAN}

\* reset_conversation's default argument: None.
NoPrompt == [kind |-> "none"]

\* A line of text. No branch of the program reads a message's text, so the
\* model tells texts apart by a number: the text entered when the history
\* held n messages is text n. `mem` is the memory block prepended to it
\* (user payloads only; empty for every other text).
Text(n, mem) == [kind |-> "text", text |-> n, mem |-> mem]

PlainText(n) == Text(n, <<>>)

-----------------------------------------------------------------------------
(* ConversationLogger. The log file is the sequence of its entries; the    *)
(* specifications that do not follow the log keep NotFollowed in its place. *)

NotFollowed == <<[not_followed |-> TRUE]>>

LogEntry(speaker, content) == [speaker |-> speaker, content |-> content]

\* what a command writes to the log
Note(text) == [kind |-> "note", text |-> text]

\* log_message that opens the file with "w"
log_message_overwrites(log, speaker, content) ==
    IF log = NotFollowed THEN log
    ELSE <<LogEntry(speaker, content)>>

\* log_message: open(log_file, "a") and one entry written
log_message(log, speaker, content) ==
    IF log = NotFollowed THEN log
    ELSE Append(log, LogEntry(speaker, content))

\* the speaker add_message logs a message of `role` under; "Bot" stands for
\* bot_info["NAME"]
Speaker(role) ==
    IF role = "assistant" THEN "Bot" ELSE IF role = "user" THEN "User" ELSE "System"

\* the log after add_message(role, content): the message is logged as it was
\* passed, before the length of the history is tested
add_message_logged(log, role, content) == log_message(log, Speaker(role), content)

-----------------------------------------------------------------------------
(* ConversationManager. Its methods are operators on the record            *)
(* [messages, turn_count, conversation_summary] of the fields they write.  *)

\* conversation_summary = "": nothing has been summarized.
NoSummary == <<>>

ConvState(m, t, s) == [messages |-> m, turn_count |-> t, conversation_summary |-> s]

\* summary_parts: one part for the user contents of the elided range, one for
\* the assistant contents, each the join of the set of those contents (the
\* program cuts the joined text at 100 characters; the model keeps the set
\* that is joined). " | ".join of the parts is the sequence of the parts.
summary_parts(old_messages) ==
    LET user_inputs == ContentsOf(old_messages, "user")
        bot_responses == ContentsOf(old_messages, "assistant")
    IN  (IF user_inputs # {}
            THEN <<[who |-> "User", topics |-> user_inputs]>> ELSE <<>>)
        \o (IF bot_responses # {}
               THEN <<[who |-> "Bot", topics |-> bot_responses]>> ELSE <<>>)

summary_message(summary) ==
    Msg("system", [kind |-> "summary", parts |-> summary])

\* _summarize_old_messages with the summary put behind the recent messages
summarize_summary_last(cs) ==
    LET system_message == cs.messages[1]
        recent_messages == LastN(cs.messages, KeepRecent)
        old_messages == Between(cs.messages, KeepRecent)
        summary == summary_parts(old_messages)
    IN  IF old_messages # <<>>
        THEN [cs EXCEPT !.conversation_summary = summary,
                        !.messages = <<system_message>> \o recent_messages
                                     \o <<summary_message(summary)>>]
        ELSE cs

\* _summarize_old_messages that keeps one message fewer than KeepRecent
summarize_keeps_fewer(cs) ==
    LET system_message == cs.messages[1]
        recent_messages == LastN(cs.messages, KeepRecent - 1)
        old_messages == Between(cs.messages, KeepRecent)
        summary == summary_parts(old_messages)
    IN  IF old_messages # <<>>
        THEN [cs EXCEPT !.conversation_summary = summary,
                        !.messages = <<system_message, summary_message(summary)>>
                                     \o recent_messages]
        ELSE cs

\* _summarize_old_messages that summarizes from index 2 on and so keeps the
\* message at index 1 behind the new summary
summarize_keeps_second(cs) ==
    LET system_message == cs.messages[1]
        recent_messages == LastN(cs.messages, KeepRecent)
        old_messages == Between(cs.messages, KeepRecent)
        summary == summary_parts(Tail(old_messages))
    IN  IF old_messages # <<>>
        THEN [cs EXCEPT !.conversation_summary = summary,
                        !.messages = <<system_message, summary_message(summary),
                                       old_messages[1]>>
                                     \o recent_messages]
        ELSE cs

\* _summarize_old_messages
summarize_old_messages(cs) ==
    LET system_message == cs.messages[1]
        recent_messages == LastN(cs.messages, KeepRecent)
        old_messages == Between(cs.messages, KeepRecent)
        summary == summary_parts(old_messages)
    IN  IF old_messages # <<>>
        THEN [cs EXCEPT !.conversation_summary = summary,
                        !.messages = <<system_message, summary_message(summary)>>
                                     \o recent_messages]
        ELSE cs

\* add_message with the length tested before the message is appended
add_message_tested_early(cs, role, content) ==
    LET appended == [cs EXCEPT !.messages = Append(@, Msg(role, content)),
                               !.turn_count = @ + 1]
    IN  IF Len(cs.messages) > max_context_length
        THEN summarize_old_messages(appended)
        ELSE appended

\* add_message that counts the user and assistant messages only
add_message_counts_dialogue(cs, role, content) ==
    LET appended == [cs EXCEPT !.messages = Append(@, Msg(role, content)),
                               !.turn_count = IF role = "system" THEN @ ELSE @ + 1]
    IN  IF Len(appended.messages) > max_context_length
        THEN summarize_old_messages(appended)
        ELSE appended

\* add_message
add_message(cs, role, content) ==
    LET appended == [cs EXCEPT !.messages = Append(@, Msg(role, content)),
                               !.turn_count = @ + 1]
    IN  IF Len(appended.messages) > max_context_length
        THEN summarize_old_messages(appended)
        ELSE appended

\* rewind_last_exchange without the decrement of turn_count
rewind_keeps_count(cs) ==
    IF Len(cs.messages) < MinExchange
    THEN <<cs, "False">>
    ELSE <<[cs EXCEPT !.messages = Popped(Popped(@))], "True">>

\* rewind_last_exchange that decrements turn_count before it tests the length
rewind_counts_first(cs) ==
    IF Len(cs.messages) < MinExchange
    THEN <<[cs EXCEPT !.turn_count = @ - 1], "False">>
    ELSE <<[cs EXCEPT !.messages = Popped(Popped(@)), !.turn_count = @ - 1], "True">>

\* rewind_last_exchange: <<the state it leaves, the value it returns>>
rewind_last_exchange(cs) ==
    IF Len(cs.messages) < MinExchange
    THEN <<cs, "False">>
    ELSE <<[cs EXCEPT !.messages = Popped(Popped(@)), !.turn_count = @ - 1], "True">>

\* reset_conversation that keeps the summary of the conversation it ends
reset_keeps_summary(current_prompt, new_system_prompt) ==
    LET prompt == IF new_system_prompt = NoPrompt
                  THEN current_prompt ELSE new_system_prompt
    IN  ConvState(<<Msg("system", prompt)>>, 0, conversation_summary)

\* reset_conversation; current_prompt is self.system_prompt
reset_conversation(current_prompt, new_system_prompt) ==
    LET prompt == IF new_system_prompt = NoPrompt
                  THEN current_prompt ELSE new_system_prompt
    IN  ConvState(<<Msg("system", prompt)>>, 0, NoSummary)

\* memory_limit without the upper clamp
memory_limit_unclamped(turns) ==
    Max(MemLimitMin, MemLimitBase - (turns \div MemLimitStep))

\* get_memory_context: memory_limit
memory_limit(turns) ==
    Min(MemLimitMax, Max(MemLimitMin, MemLimitBase - (turns \div MemLimitStep)))

Conv == ConvState(messages, turn_count, conversation_summary)

SetConv(cs) ==
    /\ messages' = cs.messages
    /\ turn_count' = cs.turn_count
    /\ conversation_summary' = cs.conversation_summary

-----------------------------------------------------------------------------
(* Texts the memory code reads. A text is named, and the tables below say  *)
(* of each what the program's regular expressions and substring tests find *)
(* in it:                                                                  *)
(*   kay      "My name is Kay and I live in Oslo."                         *)
(*   paris    "I will remember that you live in Paris."                    *)
(*   tea      "I love green tea."                                          *)
(*   promise  "I promise it is important."                                 *)
(*   weather  "The weather is nice today."                                 *)
(*   ok       "Okay."                                                      *)
(*   vow      "I promise I will always remember this important day."       *)
(*   never    "Never go."                                                  *)

TextNames == {"kay", "paris", "tea", "promise", "weather", "ok", "vow", "never"}

\* len(sentence)
TextLen(t) ==
    CASE t = "kay" -> 34 [] t = "paris" -> 39 [] t = "tea" -> 17
      [] t = "promise" -> 26 [] t = "weather" -> 26 [] t = "vow" -> 52
      [] t = "never" -> 9
      [] OTHER -> 5

\* the entries of important_keywords that occur in text.lower()
KeywordHits(t) ==
    CASE t = "kay" -> {"name"}
      [] t = "paris" -> {"remember"}
      [] t = "promise" -> {"promise", "important"}
      [] t = "vow" -> {"promise", "always", "remember", "important"}
      [] OTHER -> {}

\* the entries of _calculate_importance's personal_patterns that match
PatternHits(t) ==
    CASE t = "kay" -> {"my name is", "i live in"}
      [] t = "tea" -> {"i love"}
      [] OTHER -> {}

\* re.findall(r'\b\w{4,}\b', note.lower())
IndexWords(t) ==
    CASE t = "kay" -> {"name", "live", "oslo"}
      [] t = "paris" -> {"will", "remember", "that", "live", "paris"}
      [] t = "tea" -> {"love", "green"}
      [] t = "promise" -> {"promise", "important"}
      [] t = "weather" -> {"weather", "nice", "today"}
      [] t = "vow" -> {"promise", "will", "always", "remember", "this", "important"}
      [] t = "never" -> {"never"}
      [] OTHER -> {}

\* a pattern of extract_auto_memories' memory_indicators matches
IsExplicit(t) == t \in {"paris", "promise", "vow", "never"}
\* a pattern of extract_auto_memories' personal_patterns matches
IsPersonal(t) == t \in {"kay", "tea"}
\* a pattern of intention_patterns matches
IsIntention(t) == t \in {"paris", "vow"}

-----------------------------------------------------------------------------
(* MemoryManager. Its methods are operators on the record of the memory    *)
(* file and the fields they write.                                         *)

\* memfile_path.exists() is false
NoFile == <<[absent |-> TRUE]>>
\* memory_cache is None, cache_timestamp is None
NoCache == <<[none |-> TRUE]>>
NoTime == -1

BaseImportance == 5
KeywordWeight == 2
PatternWeight == 1
ImportanceCap == 10
MinSentence == 10
MaxSentence == 200
MaxAuto == 2
MarkerStep == 3
MaxMarker == 3
SearchLimit == 5
MinWordLength == 4

MemState(f, t, c, ct, ix) ==
    [memfile |-> f, mtime |-> t, memory_cache |-> c, cache_timestamp |-> ct,
     keywords_index |-> ix]

Exists(f) == f # NoFile

\* the lines of the file; none if there is no file
Lines(f) == IF Exists(f) THEN f ELSE <<>>

\* a line of the file that json.loads rejects
Malformed == [malformed |-> TRUE]
IsRecord(line) == line # Malformed
\* the lines json.loads accepts, in file order
WellFormed(lines) == SelectSeq(lines, IsRecord)

\* _calculate_importance without the cap
importance_uncapped(text) ==
    BaseImportance + KeywordWeight * Cardinality(KeywordHits(text))
                   + PatternWeight * Cardinality(PatternHits(text))

\* _calculate_importance
calculate_importance(text) ==
    Min(BaseImportance + KeywordWeight * Cardinality(KeywordHits(text))
                       + PatternWeight * Cardinality(PatternHits(text)),
        ImportanceCap)

MemoryRecord(ts, text, tags) ==
    [ts |-> ts, note |-> text, tags |-> tags, importance |-> calculate_importance(text)]

\* _build_memory_index: the index of the file's lines, word -> {ts}; a
\* word is a key only if some line holds it (defaultdict); a line that
\* json.loads rejects is passed over.
IndexOf(lines) ==
    LET parsed == WellFormed(lines)
        keys == UNION {IndexWords(parsed[i].note) : i \in 1..Len(parsed)}
    IN  [w \in keys |->
            {parsed[i].ts : i \in {j \in 1..Len(parsed) : w \in IndexWords(parsed[j].note)}}]

build_memory_index(ms) ==
    IF ~Exists(ms.memfile) THEN ms
    ELSE [ms EXCEPT !.keywords_index = IndexOf(ms.memfile)]

\* the sort key of load_all_memories: (-importance, ts), ascending
KeyLE(a, b) ==
    \/ a.importance > b.importance
    \/ a.importance = b.importance /\ a.ts <= b.ts

\* list.sort is stable: x goes behind every element whose key is not larger
SortInsert(sorted, x) ==
    LET p == Cardinality({i \in 1..Len(sorted) : KeyLE(sorted[i], x)})
    IN  SubSeq(sorted, 1, p) \o <<x>> \o SubSeq(sorted, p + 1, Len(sorted))

RECURSIVE SortedMemories(_)
SortedMemories(lines) ==
    IF lines = <<>> THEN <<>>
    ELSE SortInsert(SortedMemories(Popped(lines)), lines[Len(lines)])

\* dt.datetime.now().timestamp() as load_all_memories reads it: no earlier
\* than the last write of the file. Only its comparison with the file's
\* mtime is ever read, so the model takes the instant of that write.
Now(ms) == ms.mtime

\* load_all_memories: <<the state it leaves, the list it returns>>
load_all_memories(ms) ==
    IF /\ ms.memory_cache # NoCache
       /\ ms.cache_timestamp # NoTime
       /\ Exists(ms.memfile)
       /\ ms.mtime <= ms.cache_timestamp
    THEN <<ms, ms.memory_cache>>
    ELSE IF ~Exists(ms.memfile) THEN <<ms, <<>> >>
    ELSE IF WellFormed(ms.memfile) # ms.memfile
    THEN \* json.loads raises in the list comprehension: except, return []
         <<ms, <<>> >>
    ELSE LET memories == SortedMemories(ms.memfile)
             cached == [ms EXCEPT !.memory_cache = memories,
                                  !.cache_timestamp = Now(ms)]
         IN  <<IF DOMAIN ms.keywords_index = {}
               THEN build_memory_index(cached) ELSE cached,
               memories>>

\* load_recent_memories
load_recent_memories(ms, limit) ==
    LET r == load_all_memories(ms)
    IN  <<r[1], FirstN(r[2], limit)>>

\* format_memories_as_context: one bullet per record, (ts, marker, note);
\* no record, no header: the empty text
format_memories_as_context(memories) ==
    [i \in 1..Len(memories) |->
        <<memories[i].ts,
          Min(memories[i].importance \div MarkerStep, MaxMarker),
          memories[i].note>>]

\* append_memory that opens the file with "w": the record replaces the file
append_overwrites(ms, text, tags, ts, written) ==
    IF ~written THEN ms
    ELSE build_memory_index(
           [ms EXCEPT !.memfile = <<MemoryRecord(ts, text, tags)>>,
                      !.mtime = @ + 1,
                      !.memory_cache = NoCache])

\* append_memory that puts the record in front of the lines of the file
append_in_front(ms, text, tags, ts, written) ==
    IF ~written THEN ms
    ELSE build_memory_index(
           [ms EXCEPT !.memfile = <<MemoryRecord(ts, text, tags)>>
                                  \o (IF Exists(@) THEN @ ELSE <<>>),
                      !.mtime = @ + 1,
                      !.memory_cache = NoCache])

\* append_memory that leaves the index as it was
append_without_rebuild(ms, text, tags, ts, written) ==
    IF ~written THEN ms
    ELSE [ms EXCEPT !.memfile = (IF Exists(@) THEN @ ELSE <<>>)
                                \o <<MemoryRecord(ts, text, tags)>>,
                    !.mtime = @ + 1,
                    !.memory_cache = NoCache]

\* append_memory that drops the cache before it opens the file
append_invalidates_first(ms, text, tags, ts, written) ==
    IF ~written THEN [ms EXCEPT !.memory_cache = NoCache]
    ELSE build_memory_index(
           [ms EXCEPT !.memfile = (IF Exists(@) THEN @ ELSE <<>>)
                                  \o <<MemoryRecord(ts, text, tags)>>,
                      !.mtime = @ + 1,
                      !.memory_cache = NoCache])

\* append_memory; ts is the second the clock shows, written says whether
\* the write went through
append_memory(ms, text, tags, ts, written) ==
    IF ~written THEN ms
    ELSE build_memory_index(
           [ms EXCEPT !.memfile = (IF Exists(@) THEN @ ELSE <<>>)
                                  \o <<MemoryRecord(ts, text, tags)>>,
                      !.mtime = @ + 1,
                      !.memory_cache = NoCache])

\* extract_auto_memories that keeps the first two candidates it found
extract_first_found(sentences) ==
    LET IsCandidate(t) ==
            /\ TextLen(t) >= MinSentence
            /\ TextLen(t) <= MaxSentence
            /\ (IsExplicit(t) \/ IsPersonal(t) \/ IsIntention(t))
    IN  FirstN(SelectSeq(sentences, IsCandidate), MaxAuto)

\* extract_auto_memories that does not fill up with other_memories
extract_without_others(sentences) ==
    LET IsCandidate(t) ==
            /\ TextLen(t) >= MinSentence
            /\ TextLen(t) <= MaxSentence
            /\ (IsExplicit(t) \/ IsPersonal(t) \/ IsIntention(t))
        memories == SelectSeq(sentences, IsCandidate)
    IN  FirstN(SelectSeq(memories, IsExplicit), MaxAuto)

\* extract_auto_memories that puts other_memories in front
extract_others_first(sentences) ==
    LET IsCandidate(t) ==
            /\ TextLen(t) >= MinSentence
            /\ TextLen(t) <= MaxSentence
            /\ (IsExplicit(t) \/ IsPersonal(t) \/ IsIntention(t))
        memories == SelectSeq(sentences, IsCandidate)
        explicit_memories == SelectSeq(memories, IsExplicit)
        IsOther(t) == \A i \in 1..Len(explicit_memories) : explicit_memories[i] # t
        other_memories == SelectSeq(memories, IsOther)
        result == FirstN(explicit_memories, MaxAuto)
    IN  IF Len(result) < MaxAuto
        THEN FirstN(other_memories, MaxAuto - Len(result)) \o result
        ELSE result

\* extract_auto_memories that returns every candidate, the explicit first
extract_uncapped(sentences) ==
    LET IsCandidate(t) ==
            /\ TextLen(t) >= MinSentence
            /\ TextLen(t) <= MaxSentence
            /\ (IsExplicit(t) \/ IsPersonal(t) \/ IsIntention(t))
        memories == SelectSeq(sentences, IsCandidate)
        explicit_memories == SelectSeq(memories, IsExplicit)
        IsOther(t) == \A i \in 1..Len(explicit_memories) : explicit_memories[i] # t
    IN  explicit_memories \o SelectSeq(memories, IsOther)

\* extract_auto_memories on a response given as its trimmed sentences
extract_auto_memories(sentences) ==
    LET IsCandidate(t) ==
            /\ TextLen(t) >= MinSentence
            /\ TextLen(t) <= MaxSentence
            /\ (IsExplicit(t) \/ IsPersonal(t) \/ IsIntention(t))
        memories == SelectSeq(sentences, IsCandidate)
        explicit_memories == SelectSeq(memories, IsExplicit)
        IsOther(t) == \A i \in 1..Len(explicit_memories) : explicit_memories[i] # t
        other_memories == SelectSeq(memories, IsOther)
        result == FirstN(explicit_memories, MaxAuto)
    IN  IF Len(result) < MaxAuto
        THEN result \o FirstN(other_memories, MaxAuto - Len(result))
        ELSE result

\* get_memory_context: <<the memory state it leaves, the block it returns>>
\* get_memory_context without the use_memory test
get_memory_context_always(ms, enabled, turns) ==
    LET r == load_recent_memories(ms, memory_limit(turns))
    IN  <<r[1], format_memories_as_context(r[2])>>

get_memory_context(ms, enabled, turns) ==
    IF ~enabled THEN <<ms, <<>> >>
    ELSE LET r == load_recent_memories(ms, memory_limit(turns))
         IN  <<r[1], format_memories_as_context(r[2])>>

\* The orders in which Python may iterate over a set S of strings.
Orderings(S) ==
    {o \in [1..Cardinality(S) -> S] : \A i, j \in 1..Cardinality(S) : i # j => o[i] # o[j]}

\* keywords_index.get(word, [])
IndexHits(ix, word) == IF word \in DOMAIN ix THEN ix[word] ELSE {}

\* The keys of memory_scores in the order the two loops of search_memories
\* insert them: the query words in the order `words`, the timestamps of a
\* word in the order `rank` gives them (both iterate over sets).
RECURSIVE InsertionOrder(_, _, _)
InsertionOrder(words, ix, rank) ==
    IF words = <<>> THEN <<>>
    ELSE LET earlier == InsertionOrder(Popped(words), ix, rank)
             hits == IndexHits(ix, words[Len(words)])
             IsNew(ts) == ts \in hits /\ \A i \in 1..Len(earlier) : earlier[i] # ts
         IN  earlier \o SelectSeq(rank, IsNew)

\* sorted(items, key=score, reverse=True): stable, so a key goes behind
\* every key already placed whose score is not smaller
RECURSIVE SortedByScore(_, _)
SortedByScore(keys, score) ==
    IF keys = <<>> THEN <<>>
    ELSE LET placed == SortedByScore(Popped(keys), score)
             x == keys[Len(keys)]
             p == Cardinality({i \in 1..Len(placed) : score[placed[i]] >= score[x]})
         IN  SubSeq(placed, 1, p) \o <<x>> \o SubSeq(placed, p + 1, Len(placed))

\* search_memories without the slice [:limit]
search_unlimited(ms, words, limit, rank) ==
    LET indexed == IF DOMAIN ms.keywords_index = {} THEN build_memory_index(ms) ELSE ms
        ix == indexed.keywords_index
        scored == UNION {IndexHits(ix, words[i]) : i \in 1..Len(words)}
        memory_scores ==
            [ts \in scored |->
                Cardinality({i \in 1..Len(words) : ts \in IndexHits(ix, words[i])})]
        loaded == load_all_memories(indexed)
        all_memories == loaded[2]
        Position(ts) == {i \in 1..Len(all_memories) : all_memories[i].ts = ts}
        memory_by_timestamp(ts) ==
            all_memories[CHOOSE i \in Position(ts) : \A j \in Position(ts) : j <= i]
        sorted_timestamps == SortedByScore(InsertionOrder(words, ix, rank), memory_scores)
        InMap(ts) == Position(ts) # {}
        top == SelectSeq(sorted_timestamps, InMap)
    IN  <<loaded[1], [i \in 1..Len(top) |-> memory_by_timestamp(top[i])]>>

\* search_memories that returns a bare record for a timestamp the map lacks
search_unfiltered(ms, words, limit, rank) ==
    LET indexed == IF DOMAIN ms.keywords_index = {} THEN build_memory_index(ms) ELSE ms
        ix == indexed.keywords_index
        scored == UNION {IndexHits(ix, words[i]) : i \in 1..Len(words)}
        memory_scores ==
            [ts \in scored |->
                Cardinality({i \in 1..Len(words) : ts \in IndexHits(ix, words[i])})]
        loaded == load_all_memories(indexed)
        all_memories == loaded[2]
        Position(ts) == {i \in 1..Len(all_memories) : all_memories[i].ts = ts}
        memory_by_timestamp(ts) ==
            IF Position(ts) = {}
            THEN [ts |-> ts, note |-> "", tags |-> <<>>, importance |-> BaseImportance]
            ELSE all_memories[CHOOSE i \in Position(ts) : \A j \in Position(ts) : j <= i]
        sorted_timestamps == SortedByScore(InsertionOrder(words, ix, rank), memory_scores)
        top == FirstN(sorted_timestamps, limit)
    IN  <<loaded[1], [i \in 1..Len(top) |-> memory_by_timestamp(top[i])]>>

\* search_memories for a query whose tokens are `words` (no token twice):
\* <<the memory state it leaves, the list it returns>>
\* search_memories that returns the first records of the store when no
\* record was scored
search_pads_unscored(ms, words, limit, rank) ==
    LET indexed == IF DOMAIN ms.keywords_index = {} THEN build_memory_index(ms) ELSE ms
        ix == indexed.keywords_index
        scored == UNION {IndexHits(ix, words[i]) : i \in 1..Len(words)}
        memory_scores ==
            [ts \in scored |->
                Cardinality({i \in 1..Len(words) : ts \in IndexHits(ix, words[i])})]
        loaded == load_all_memories(indexed)
        all_memories == loaded[2]
        Position(ts) == {i \in 1..Len(all_memories) : all_memories[i].ts = ts}
        memory_by_timestamp(ts) ==
            all_memories[CHOOSE i \in Position(ts) : \A j \in Position(ts) : j <= i]
        sorted_timestamps == SortedByScore(InsertionOrder(words, ix, rank), memory_scores)
        InMap(ts) == Position(ts) # {}
        top == SelectSeq(FirstN(sorted_timestamps, limit), InMap)
    IN  <<loaded[1],
          IF scored = {} THEN FirstN(all_memories, limit)
          ELSE [i \in 1..Len(top) |-> memory_by_timestamp(top[i])]>>

search_memories(ms, words, limit, rank) ==
    LET indexed == IF DOMAIN ms.keywords_index = {} THEN build_memory_index(ms) ELSE ms
        ix == indexed.keywords_index
        scored == UNION {IndexHits(ix, words[i]) : i \in 1..Len(words)}
        memory_scores ==
            [ts \in scored |->
                Cardinality({i \in 1..Len(words) : ts \in IndexHits(ix, words[i])})]
        loaded == load_all_memories(indexed)
        all_memories == loaded[2]
        Position(ts) == {i \in 1..Len(all_memories) : all_memories[i].ts = ts}
        \* {memory["ts"]: memory for memory in all_memories}: the last one stays
        memory_by_timestamp(ts) ==
            all_memories[CHOOSE i \in Position(ts) : \A j \in Position(ts) : j <= i]
        sorted_timestamps == SortedByScore(InsertionOrder(words, ix, rank), memory_scores)
        InMap(ts) == Position(ts) # {}
        top == SelectSeq(FirstN(sorted_timestamps, limit), InMap)
    IN  <<loaded[1], [i \in 1..Len(top) |-> memory_by_timestamp(top[i])]>>

Mem == MemState(memfile, mtime, memory_cache, cache_timestamp, keywords_index)

SetMem(ms) ==
    /\ memfile' = ms.memfile
    /\ mtime' = ms.mtime
    /\ memory_cache' = ms.memory_cache
    /\ cache_timestamp' = ms.cache_timestamp
    /\ keywords_index' = ms.keywords_index

\* The second the clock shows at an append: that of the file's newest
\* record, or a later one (several appends may fall in one second).
NewestTs(f) ==
    IF Exists(f) /\ WellFormed(f) # <<>>
    THEN WellFormed(f)[Len(WellFormed(f))].ts ELSE 1
ClockChoices(f) == {NewestTs(f), NewestTs(f) + 1}

\* The file a session starts with: absent, or the records earlier sessions
\* appended, oldest first (a prefix of SeedFile).
SeedFile ==
    <<MemoryRecord(1, "weather", <<"manual">>),
      MemoryRecord(1, "kay", <<"manual">>),
      MemoryRecord(2, "tea", <<"auto">>),
      MemoryRecord(3, "paris", <<"auto">>),
      MemoryRecord(3, "promise", <<"auto">>),
      MemoryRecord(4, "weather", <<"manual">>),
      MemoryRecord(5, "tea", <<"auto">>),
      MemoryRecord(6, "kay", <<"manual">>),
      MemoryRecord(7, "paris", <<"auto">>)>>

EmptyIndex == IndexOf(<<>>)

-----------------------------------------------------------------------------
(* SpecCM: a client calls the methods of one ConversationManager.          *)

\* The role the client passes for the message that will sit at index n:
\* the main loop's order (bot first), the order after a reset (user first),
\* or user first with a system-role note as every third message.
Scripts == {"bot_first", "user_first", "with_system"}

ScriptRole(script, n) ==
    CASE script = "bot_first" -> IF n % 2 = 1 THEN "assistant" ELSE "user"
      [] script = "user_first" -> IF n % 2 = 1 THEN "user" ELSE "assistant"
      [] OTHER -> IF n % 3 = 0 THEN "system"
                  ELSE IF n % 3 = 1 THEN "user" ELSE "assistant"

\* The prompts the client passes.
ClientPrompts == {build_system_prompt(FALSE, FALSE), build_system_prompt(TRUE, FALSE)}

InitCM ==
    /\ system_prompt = build_system_prompt(FALSE, FALSE)
    /\ messages = <<Msg("system", system_prompt)>>
    /\ conversation_summary = NoSummary
    /\ turn_count = 0
    /\ use_memory = TRUE
    /\ nsfw_mode = FALSE
    /\ romantic_mode = FALSE
    /\ pc = "client"
    /\ detours = 0
    /\ memfile = FirstN(SeedFile, LargeSeed)
    /\ mtime = 0
    /\ memory_cache = NoCache
    /\ cache_timestamp = NoTime
    /\ keywords_index = EmptyIndex
    /\ role_script \in Scripts
    /\ chat_log = NotFollowed
    /\ op = "init"
    /\ arg = NoPrompt
    /\ ret = "None"

\* Which branch of add_message ran on a history of n messages.
AddOp(n) == IF n + 1 > max_context_length THEN "add_message+summarize" ELSE "add_message"
AddOps == {"add_message", "add_message+summarize"}

\* The message the client adds next: its role by the script, its content new.
NextMessage == Msg(ScriptRole(role_script, Len(messages)), PlainText(Len(messages)))

CM_AddMessage ==
    /\ turn_count < MaxClientTurns
    /\ LET n == Len(messages)
       IN  /\ SetConv(add_message(Conv, NextMessage.role, NextMessage.content))
           /\ op' = AddOp(n)
           /\ arg' = NoPrompt
    /\ chat_log' = add_message_logged(chat_log, NextMessage.role, NextMessage.content)
    /\ ret' = "None"
    /\ UNCHANGED <<system_prompt, use_memory, modes, pc, detours, store, role_script>>

CM_RewindLastExchange ==
    /\ LET r == rewind_last_exchange(Conv)
       IN  SetConv(r[1]) /\ ret' = r[2]
    /\ op' = "rewind_last_exchange"
    /\ arg' = NoPrompt
    /\ UNCHANGED <<system_prompt, use_memory, modes, pc, detours, store, role_script, chat_log>>

CM_ResetConversation ==
    /\ \E new_system_prompt \in ClientPrompts \cup {NoPrompt} :
          /\ SetConv(reset_conversation(system_prompt, new_system_prompt))
          /\ arg' = new_system_prompt
    /\ op' = "reset_conversation"
    /\ ret' = "None"
    /\ UNCHANGED <<system_prompt, use_memory, modes, pc, detours, store, role_script, chat_log>>

CM_UpdateSystemPrompt ==
    /\ \E new_system_prompt \in ClientPrompts :
          /\ system_prompt' = new_system_prompt
          /\ SetConv(reset_conversation(new_system_prompt, new_system_prompt))
          /\ arg' = new_system_prompt
    /\ op' = "update_system_prompt"
    /\ ret' = "None"
    /\ UNCHANGED <<use_memory, modes, pc, detours, store, role_script, chat_log>>

\* get_memory_context, called on its own
CM_GetMemoryContext ==
    /\ LET context == get_memory_context(Mem, use_memory, turn_count)
       IN  SetMem(context[1])
    /\ op' = "get_memory_context"
    /\ arg' = NoPrompt
    /\ ret' = "None"
    /\ UNCHANGED <<conv, system_prompt, use_memory, modes, pc, detours, role_script, chat_log>>

NextCM ==
    \/ CM_GetMemoryContext
    \/ CM_AddMessage
    \/ CM_RewindLastExchange
    \/ CM_ResetConversation
    \/ CM_UpdateSystemPrompt

SpecCM == InitCM /\ [][NextCM]_vars

\* SpecAdds: the client calls add_message again and again and asks for the
\* memory context in between; it never resets or rewinds.
AD_AddMessage ==
    /\ turn_count < MaxAddCalls
    /\ LET n == Len(messages)
       IN  /\ SetConv(add_message(Conv, NextMessage.role, NextMessage.content))
           /\ op' = AddOp(n)
           /\ arg' = NoPrompt
    /\ chat_log' = add_message_logged(chat_log, NextMessage.role, NextMessage.content)
    /\ ret' = "None"
    /\ UNCHANGED <<system_prompt, use_memory, modes, pc, detours, store, role_script>>

NextAdds ==
    \/ AD_AddMessage
    \/ CM_GetMemoryContext

SpecAdds == InitCM /\ [][NextAdds]_vars

TypeCM == Len(messages) >= 1

-----------------------------------------------------------------------------
(* SpecMM: a client appends to and loads from one MemoryManager, whose     *)
(* file does not exist at first. SpecMMEdited: the file is also edited     *)
(* from outside, which leaves lines in it that are no JSON. SpecSearch: a  *)
(* client appends, loads and searches.                                     *)

\* The notes the client appends in SpecMM, and in SpecSearch.
NoteTexts == {"kay", "paris", "weather", "vow"}
SearchNotes == {"kay", "paris", "weather"}
\* The queries it searches, as the sets of their tokens
\* (re.findall(r'\b\w{4,}\b', query.lower())).
Queries == {{"oslo"}, {"live"}, {"live", "remember"}}
\* The limits it passes.
Limits == 0..2

InitMM ==
    /\ system_prompt = build_system_prompt(FALSE, FALSE)
    /\ messages = <<Msg("system", system_prompt)>>
    /\ conversation_summary = NoSummary
    /\ turn_count = 0
    /\ use_memory = TRUE
    /\ nsfw_mode = FALSE
    /\ romantic_mode = FALSE
    /\ pc = "client"
    /\ detours = 0
    /\ memfile = NoFile
    /\ mtime = NoTime
    /\ memory_cache = NoCache
    /\ cache_timestamp = NoTime
    /\ keywords_index = EmptyIndex
    /\ role_script = "memory"
    /\ chat_log = NotFollowed
    /\ op = "init"
    /\ arg = NoPrompt
    /\ ret = <<>>

\* what no call of SpecMM writes
MMFrame == UNCHANGED <<conv, system_prompt, use_memory, modes, pc, detours, role_script, chat_log>>

LineCount(f) == IF Exists(f) THEN Len(f) ELSE 0

\* append_memory with one of `notes`, in the second of the newest record or
\* the next; the write goes through or raises
AppendNote(notes) ==
    /\ LineCount(memfile) < MaxLines
    /\ \E note \in notes, d \in {0, 1}, written \in BOOLEAN :
          /\ SetMem(append_memory(Mem, note, <<"manual">>, NewestTs(memfile) + d, written))
          /\ arg' = [note |-> note, written |-> written]
    /\ op' = "append_memory"
    /\ ret' = <<>>
    /\ MMFrame

MM_AppendMemory == AppendNote(NoteTexts)

MM_LoadAllMemories ==
    /\ LET loaded == load_all_memories(Mem)
       IN  SetMem(loaded[1]) /\ ret' = loaded[2]
    /\ op' = "load_all_memories"
    /\ arg' = NoPrompt
    /\ MMFrame

MM_LoadRecentMemories ==
    /\ \E limit \in Limits :
          LET loaded == load_recent_memories(Mem, limit)
          IN  /\ SetMem(loaded[1])
              /\ ret' = loaded[2]
              /\ arg' = [limit |-> limit]
    /\ op' = "load_recent_memories"
    /\ MMFrame

\* The timestamps a search may meet in the index.
Stamps(f) == IF Exists(f) THEN {WellFormed(f)[i].ts : i \in 1..Len(WellFormed(f))} ELSE {}

\* search_memories. A search leaves the memory state load_all_memories
\* leaves, so a search that follows a search meets the state of a search
\* that follows a load: only the latter is taken.
MS_SearchMemories ==
    /\ op # "search_memories"
    /\ \E query \in Queries, limit \in Limits :
          \E words \in Orderings(query), rank \in Orderings(Stamps(memfile)) :
             LET found == search_memories(Mem, words, limit, rank)
             IN  /\ SetMem(found[1])
                 /\ ret' = found[2]
                 /\ arg' = [query |-> query, limit |-> limit]
    /\ op' = "search_memories"
    /\ MMFrame

\* Someone else writes a line that is no JSON at the end of the file.
MM_ExternalEdit ==
    /\ LineCount(memfile) < MaxLines
    /\ Len(SelectSeq(IF Exists(memfile) THEN memfile ELSE <<>>,
                     LAMBDA line : ~IsRecord(line))) < MaxMalformed
    /\ memfile' = (IF Exists(memfile) THEN memfile ELSE <<>>) \o <<Malformed>>
    /\ mtime' = mtime + 1
    /\ op' = "external edit"
    /\ arg' = NoPrompt
    /\ ret' = <<>>
    /\ UNCHANGED <<memory_cache, cache_timestamp, keywords_index>>
    /\ MMFrame

NextMM ==
    \/ MM_AppendMemory
    \/ MM_LoadAllMemories
    \/ MM_LoadRecentMemories

SpecMM == InitMM /\ [][NextMM]_vars

NextMMEdited ==
    \/ MM_AppendMemory
    \/ MM_LoadAllMemories
    \/ MM_LoadRecentMemories
    \/ MM_ExternalEdit

SpecMMEdited == InitMM /\ [][NextMMEdited]_vars

MS_AppendMemory == AppendNote(SearchNotes)

NextSearch ==
    \/ MS_AppendMemory
    \/ MM_LoadAllMemories
    \/ MS_SearchMemories

SpecSearch == InitMM /\ [][NextSearch]_vars

-----------------------------------------------------------------------------
(* SpecSearchEdited: a client appends and searches while the file is also  *)
(* rewritten from outside (another process removes a record line or adds   *)
(* one), which the MemoryManager learns of only through the file's mtime:  *)
(* its index stays as the last _build_memory_index left it.                *)

\* the writes the file has seen (mtime counts them from NoTime)
StoreWrites == mtime - NoTime

\* the timestamps the loops of search_memories meet for a query: those the
\* index it reads (built first if it is empty) holds for a word of the query
QueryHits(ms, query) ==
    LET ix == (IF DOMAIN ms.keywords_index = {} THEN build_memory_index(ms)
               ELSE ms).keywords_index
    IN  UNION {IndexHits(ix, w) : w \in query}

SE_AppendMemory ==
    /\ StoreWrites < MaxStoreWrites
    /\ AppendNote(SearchNotes)

\* Someone else rewrites the file without one of its lines.
SE_ExternalRemove ==
    /\ StoreWrites < MaxStoreWrites
    /\ Exists(memfile)
    /\ \E k \in 1..Len(memfile) :
          memfile' = SubSeq(memfile, 1, k - 1) \o SubSeq(memfile, k + 1, Len(memfile))
    /\ mtime' = mtime + 1
    /\ op' = "external remove"
    /\ arg' = NoPrompt
    /\ ret' = <<>>
    /\ UNCHANGED <<memory_cache, cache_timestamp, keywords_index>>
    /\ MMFrame

\* The notes of the lines that come from outside.
EditNotes == {"paris"}

\* Someone else appends a record line to the file.
SE_ExternalAdd ==
    /\ StoreWrites < MaxStoreWrites
    /\ LineCount(memfile) < MaxLines
    /\ \E note \in EditNotes, d \in {0, 1} :
          memfile' = Lines(memfile)
                       \o <<MemoryRecord(NewestTs(memfile) + d, note, <<"manual">>)>>
    /\ mtime' = mtime + 1
    /\ op' = "external add"
    /\ arg' = NoPrompt
    /\ ret' = <<>>
    /\ UNCHANGED <<memory_cache, cache_timestamp, keywords_index>>
    /\ MMFrame

\* search_memories; the index may hold timestamps the file has lost
SE_SearchMemories ==
    /\ op # "search_memories"
    /\ \E query \in Queries, limit \in Limits :
          \E words \in Orderings(query),
             rank \in Orderings(QueryHits(Mem, query)) :
             LET found == search_memories(Mem, words, limit, rank)
             IN  /\ SetMem(found[1])
                 /\ ret' = found[2]
                 /\ arg' = [query |-> query, limit |-> limit]
    /\ op' = "search_memories"
    /\ MMFrame

NextSearchEdited ==
    \/ SE_AppendMemory
    \/ SE_SearchMemories
    \/ SE_ExternalRemove
    \/ SE_ExternalAdd

SpecSearchEdited == InitMM /\ [][NextSearchEdited]_vars

-----------------------------------------------------------------------------
(* SpecSearchShort: searches with queries of short words, on a store that  *)
(* is appended to, loaded and edited from outside.                         *)

\* The queries without a word of MinWordLength characters, as the words of
\* query.lower(): "", "hi", "my cat", "is it so".
ShortQueries == {<<>>, <<"hi">>, <<"my", "cat">>, <<"is", "it", "so">>}

\* len(word); the words of the notes and of Queries have 4 characters or more
WordLength(word) ==
    CASE word \in {"hi", "my", "is", "it", "so"} -> 2
      [] word = "cat" -> 3
      [] OTHER -> MinWordLength

\* set(re.findall(r'\b\w{4,}\b', query.lower()))
query_words(text) ==
    {text[i] : i \in {j \in 1..Len(text) : WordLength(text[j]) >= MinWordLength}}

\* search_memories on a query of short words
SS_SearchMemories ==
    /\ op # "search_memories"
    /\ \E text \in ShortQueries, limit \in Limits :
          \E words \in Orderings(query_words(text)), rank \in Orderings(QueryHits(Mem, query_words(text))) :
             LET found == search_memories(Mem, words, limit, rank)
             IN  /\ SetMem(found[1])
                 /\ ret' = found[2]
                 /\ arg' = [query |-> query_words(text), limit |-> limit, text |-> text]
    /\ op' = "search_memories"
    /\ MMFrame

NextSearchShort ==
    \/ SE_AppendMemory
    \/ MM_LoadAllMemories
    \/ SS_SearchMemories
    \/ SE_ExternalRemove
    \/ SE_ExternalAdd

SpecSearchShort == InitMM /\ [][NextSearchShort]_vars

-----------------------------------------------------------------------------
(* SpecExtract: extract_auto_memories is applied to a response of up to    *)
(* MaxSentences sentences.                                                 *)

\* The sentences a response is made of: with an explicit-memory cue (and a
\* future-intention cue), with an explicit-memory cue only, with a
\* personal-disclosure cue, with no cue, and too short with a cue.
SentenceTexts == {"paris", "promise", "kay", "tea", "weather", "never"}

\* re.split(r'(?<=[.!?])\s+', text), each part stripped, the empty ones left out
Responses == UNION {[1..n -> SentenceTexts] : n \in 0..MaxSentences}

InitExtract ==
    /\ system_prompt = build_system_prompt(FALSE, FALSE)
    /\ messages = <<Msg("system", system_prompt)>>
    /\ conversation_summary = NoSummary
    /\ turn_count = 0
    /\ use_memory = TRUE
    /\ nsfw_mode = FALSE
    /\ romantic_mode = FALSE
    /\ pc = "client"
    /\ detours = 0
    /\ memfile = NoFile
    /\ mtime = NoTime
    /\ memory_cache = NoCache
    /\ cache_timestamp = NoTime
    /\ keywords_index = EmptyIndex
    /\ role_script = "memory"
    /\ chat_log = NotFollowed
    /\ op = "init"
    /\ arg \in {[text |-> r] : r \in Responses}
    /\ ret = <<>>

EX_ExtractAutoMemories ==
    /\ op = "init"
    /\ ret' = extract_auto_memories(arg.text)
    /\ op' = "extract_auto_memories"
    /\ UNCHANGED <<arg, store>>
    /\ MMFrame

NextExtract == EX_ExtractAutoMemories

SpecExtract == InitExtract /\ [][NextExtract]_vars

-----------------------------------------------------------------------------
(* The slash commands (command_handler.py). A command works on the list    *)
(* object ConversationManager.messages itself (handle_command is passed    *)
(* the list, not a copy) and returns [messages, nsfw_mode, romantic_mode,  *)
(* should_continue].                                                       *)

CommandResult(m, nsfw, romantic, cont) ==
    [messages |-> m, nsfw_mode |-> nsfw, romantic_mode |-> romantic,
     should_continue |-> cont]

\* ResetCommand.execute
reset_command(m, nsfw, romantic) ==
    CommandResult(<<Msg("system", build_system_prompt(nsfw, romantic))>>,
                  nsfw, romantic, TRUE)

\* RewindCommand.execute asking for two messages only
rewind_command_two(m, nsfw, romantic) ==
    IF Len(m) < MinExchange - 1
    THEN CommandResult(m, nsfw, romantic, TRUE)
    ELSE CommandResult(Popped(Popped(m)), nsfw, romantic, TRUE)

\* RewindCommand.execute
rewind_command(m, nsfw, romantic) ==
    IF Len(m) < MinExchange
    THEN CommandResult(m, nsfw, romantic, TRUE)
    ELSE CommandResult(Popped(Popped(m)), nsfw, romantic, TRUE)

\* The arguments typed after /nsfw and /romantic.
NoArgs == "<none>"
ToggleArgs == {NoArgs, "on", "off", "maybe"}

\* the mode a toggle command asks for
ToggledMode(mode, action) ==
    IF action = "on" THEN TRUE ELSE IF action = "off" THEN FALSE ELSE mode

\* the update of the first message that leaves the prompt alone in the list
with_prompt_alone(m, prompt) ==
    IF m # <<>> /\ m[1].role = "system"
    THEN <<Msg("system", prompt)>>
    ELSE m

\* "Update the first message (system prompt)"
WithPrompt(m, prompt) ==
    IF m # <<>> /\ m[1].role = "system"
    THEN [m EXCEPT ![1].content = prompt]
    ELSE m

\* NsfwCommand.execute that takes every word but "off" for "on"
nsfw_command_lenient(m, nsfw, romantic, action) ==
    LET new_nsfw_mode == IF action = "off" THEN FALSE ELSE TRUE
    IN  IF action = NoArgs
        THEN CommandResult(m, nsfw, romantic, TRUE)
        ELSE CommandResult(
               IF new_nsfw_mode # nsfw
               THEN WithPrompt(m, build_system_prompt(new_nsfw_mode, romantic))
               ELSE m,
               new_nsfw_mode, romantic, TRUE)

\* NsfwCommand.execute
nsfw_command(m, nsfw, romantic, action) ==
    LET new_nsfw_mode == ToggledMode(nsfw, action)
    IN  IF action \notin {"on", "off"}
        THEN CommandResult(m, nsfw, romantic, TRUE)
        ELSE CommandResult(
               IF new_nsfw_mode # nsfw
               THEN WithPrompt(m, build_system_prompt(new_nsfw_mode, romantic))
               ELSE m,
               new_nsfw_mode, romantic, TRUE)

\* RomanticCommand.execute
romantic_command(m, nsfw, romantic, action) ==
    LET new_romantic_mode == ToggledMode(romantic, action)
    IN  IF action \notin {"on", "off"}
        THEN CommandResult(m, nsfw, romantic, TRUE)
        ELSE CommandResult(
               IF new_romantic_mode # romantic
               THEN WithPrompt(m, build_system_prompt(nsfw, new_romantic_mode))
               ELSE m,
               nsfw, new_romantic_mode, TRUE)

\* _process_user_input, lines 190-206: what the main loop does with the
\* tuple a command returned.
AfterCommand(r) ==
    /\ IF r.nsfw_mode # nsfw_mode \/ r.romantic_mode # romantic_mode
       THEN LET new_system_prompt ==
                    build_system_prompt(r.nsfw_mode, r.romantic_mode)
                updated == reset_conversation(new_system_prompt, new_system_prompt)
            IN  /\ nsfw_mode' = r.nsfw_mode
                /\ romantic_mode' = r.romantic_mode
                /\ system_prompt' = new_system_prompt
                /\ SetConv([updated EXCEPT !.messages = r.messages])
       ELSE /\ messages' = r.messages
            /\ UNCHANGED <<turn_count, conversation_summary, system_prompt, modes>>
    /\ pc' = IF r.should_continue THEN "loop" ELSE "exit"

-----------------------------------------------------------------------------
(* Spec: the session of RoleplayBotApp.run.                                *)

\* What the model's reply may say, as its trimmed sentences: nothing to
\* remember, or more to remember than a turn keeps.
Replies == {<<"weather">>, <<"tea", "paris", "kay">>}

\* What may be typed after /remember.
RememberArgs == {"", "kay"}

\* The state RoleplayBotApp._initialize_components leaves, for the default
\* modes, given the memory file found and whether --no-memory was given.
InitSession(files, memory_flags) ==
    /\ nsfw_mode = FALSE
    /\ romantic_mode = FALSE
    /\ use_memory \in memory_flags
    /\ system_prompt = build_system_prompt(nsfw_mode, romantic_mode)
    /\ messages = <<Msg("system", system_prompt)>>
    /\ conversation_summary = NoSummary
    /\ turn_count = 0
    /\ pc = "intro"
    /\ detours = 0
    /\ memfile \in files
    /\ mtime = IF Exists(memfile) THEN 0 ELSE NoTime
    /\ memory_cache = NoCache
    /\ cache_timestamp = NoTime
    /\ keywords_index = EmptyIndex
    /\ role_script = "main loop"
    /\ op = "init"
    /\ arg = NoPrompt
    /\ ret = "None"

Init ==
    /\ InitSession({FirstN(SeedFile, SmallSeed)}, BOOLEAN)
    /\ chat_log = NotFollowed

\* A line is read; it may be a detour while the session has some left.
Typed(detour) ==
    /\ pc = "loop"
    /\ detours' = IF detour THEN detours + 1 ELSE detours
    /\ detours' <= MaxDetours

\* _display_intro
DisplayIntro ==
    /\ pc = "intro"
    /\ pc' = "loop"
    /\ SetConv(add_message(Conv, "assistant", PlainText(Len(messages))))
    /\ chat_log' = add_message_logged(chat_log, "assistant", PlainText(Len(messages)))
    /\ op' = "intro"
    /\ arg' = NoPrompt
    /\ ret' = "None"
    /\ UNCHANGED <<system_prompt, use_memory, modes, detours, store, role_script>>

\* The auto-memory loop of a turn: append_memory for each note in order, the
\* i-th at the second d[i] after the newest record's, written if w[i].
RECURSIVE AppendAll(_, _, _, _, _)
AppendAll(ms, notes, tags, d, w) ==
    IF notes = <<>> THEN ms
    ELSE AppendAll(
           append_memory(ms, Head(notes), tags, NewestTs(ms.memfile) + Head(d), Head(w)),
           Tail(notes), tags, Tail(d), Tail(w))

\* _process_user_input on a line that is no command, up to the call of
\* ollama.chat: <<the conversation, the memory state>>
TurnSent(cs, ms) ==
    LET context == get_memory_context(ms, use_memory, cs.turn_count)
        user_payload == Text(Len(cs.messages), context[2])
    IN  <<add_message(cs, "user", user_payload), context[1], user_payload>>

\* ... when ollama.chat raises
TurnFailed ==
    /\ Typed(TRUE)
    /\ turn_count < MaxTurnCount
    /\ LET sent == TurnSent(Conv, Mem)
       IN  /\ SetConv([sent[1] EXCEPT !.messages = Popped(@)])
           /\ SetMem(sent[2])
           /\ chat_log' = add_message_logged(chat_log, "user", sent[3])
    /\ op' = "turn_failed"
    /\ arg' = NoPrompt
    /\ ret' = "None"
    /\ UNCHANGED <<system_prompt, use_memory, modes, pc, role_script>>

\* the sentences of reply that the turn remembers
AutoMemories(reply) == IF use_memory THEN extract_auto_memories(reply) ELSE <<>>

\* ... when ollama.chat returns reply: the first auto-memory is appended
\* tick seconds after the newest record, the others in the same second, and
\* the file can be written or it cannot
Answered(reply, tick, written) ==
    LET sent == TurnSent(Conv, Mem)
        reply_text == PlainText(Len(sent[1].messages))
        answered == add_message(sent[1], "assistant", reply_text)
        n == Len(AutoMemories(reply))
        d == [i \in 1..n |-> IF i = 1 THEN tick ELSE 0]
        w == [i \in 1..n |-> written]
    IN  /\ SetConv(answered)
        /\ SetMem(AppendAll(sent[2], AutoMemories(reply), <<"auto">>, d, w))
        /\ chat_log' = add_message_logged(
                          add_message_logged(chat_log, "user", sent[3]),
                          "assistant", reply_text)
        /\ op' = "turn_ok"
        /\ arg' = NoPrompt
        /\ ret' = "None"
        /\ UNCHANGED <<system_prompt, use_memory, modes, pc, role_script>>

\* a turn that leaves the memory file as it is
TurnOk ==
    /\ turn_count + 1 < MaxTurnCount
    /\ Typed(FALSE)
    /\ \E reply \in Replies, written \in BOOLEAN :
          /\ AutoMemories(reply) = <<>> \/ ~written
          /\ Answered(reply, 0, written)

\* a turn that adds the auto-memories of its reply to the memory file
TurnRemembered ==
    /\ turn_count + 1 < MaxTurnCount
    /\ Typed(TRUE)
    /\ \E reply \in Replies, tick \in {0, 1} :
          /\ AutoMemories(reply) # <<>>
          /\ Answered(reply, tick, TRUE)

CmdReset ==
    /\ Typed(TRUE)
    /\ AfterCommand(reset_command(messages, nsfw_mode, romantic_mode))
    /\ chat_log' = log_message(chat_log, "System", Note("Session reset"))
    /\ op' = "/reset"
    /\ arg' = NoPrompt
    /\ ret' = "None"
    /\ UNCHANGED <<use_memory, store, role_script>>

CmdRewind ==
    /\ Typed(Len(messages) < MinExchange)
    /\ AfterCommand(rewind_command(messages, nsfw_mode, romantic_mode))
    /\ op' = "/rewind"
    /\ arg' = NoPrompt
    /\ ret' = IF Len(messages) < MinExchange THEN "False" ELSE "True"
    /\ chat_log' = IF Len(messages) < MinExchange THEN chat_log
                   ELSE log_message(chat_log, "System", Note("Rewound to previous message"))
    /\ UNCHANGED <<use_memory, store, role_script>>

\* what a toggle command told the user
ToggleSaid(mode, action) ==
    IF action \notin {"on", "off"} THEN "usage"
    ELSE IF ToggledMode(mode, action) # mode THEN "changed" ELSE "unchanged"

CmdNsfw ==
    /\ Typed(TRUE)
    /\ \E action \in ToggleArgs :
          /\ AfterCommand(nsfw_command(messages, nsfw_mode, romantic_mode, action))
          /\ ret' = ToggleSaid(nsfw_mode, action)
          /\ chat_log' = IF ToggleSaid(nsfw_mode, action) = "changed"
                         THEN log_message(chat_log, "System", Note("NSFW mode " \o action))
                         ELSE chat_log
    /\ op' = "/nsfw"
    /\ arg' = NoPrompt
    /\ UNCHANGED <<use_memory, store, role_script>>

CmdRomantic ==
    /\ Typed(TRUE)
    /\ \E action \in ToggleArgs :
          /\ AfterCommand(romantic_command(messages, nsfw_mode, romantic_mode, action))
          /\ ret' = ToggleSaid(romantic_mode, action)
          /\ chat_log' = IF ToggleSaid(romantic_mode, action) = "changed"
                         THEN log_message(chat_log, "System", Note("Romantic mode " \o action))
                         ELSE chat_log
    /\ op' = "/romantic"
    /\ arg' = NoPrompt
    /\ UNCHANGED <<use_memory, store, role_script>>

\* RememberCommand.execute
CmdRemember ==
    /\ Typed(TRUE)
    /\ \E note \in RememberArgs :
          IF note = ""
          THEN ret' = "usage" /\ UNCHANGED <<store, chat_log>>
          ELSE /\ ret' = "remembered"
               /\ \E d \in {0, 1}, written \in BOOLEAN :
                     SetMem(append_memory(Mem, note, <<"manual">>,
                                          NewestTs(memfile) + d, written))
               /\ chat_log' = log_message(chat_log, "System",
                                          Note("Manual memory added: " \o note))
    /\ AfterCommand(CommandResult(messages, nsfw_mode, romantic_mode, TRUE))
    /\ op' = "/remember"
    /\ arg' = NoPrompt
    /\ UNCHANGED <<use_memory, role_script>>

\* SearchCommand.execute: the list found is printed, nothing else keeps it
CmdSearch ==
    /\ Typed(TRUE)
    /\ \E query \in Queries \cup {{}} :
          IF query = {}
          THEN ret' = "usage" /\ UNCHANGED store
          ELSE \E words \in Orderings(query), rank \in Orderings(Stamps(memfile)) :
                  LET found == search_memories(Mem, words, SearchLimit, rank)
                  IN  /\ SetMem(found[1])
                      /\ ret' = IF found[2] = <<>> THEN "none found" ELSE "found"
    /\ AfterCommand(CommandResult(messages, nsfw_mode, romantic_mode, TRUE))
    /\ op' = "/search"
    /\ arg' = NoPrompt
    /\ UNCHANGED <<use_memory, role_script, chat_log>>

\* /help, /persona, /export and a word that is no command; an export that
\* succeeds is logged
CmdShow ==
    /\ Typed(TRUE)
    /\ AfterCommand(CommandResult(messages, nsfw_mode, romantic_mode, TRUE))
    /\ chat_log' \in {chat_log,
                      log_message(chat_log, "System", Note("Transcript exported"))}
    /\ op' = "/help"
    /\ arg' = NoPrompt
    /\ ret' = "None"
    /\ UNCHANGED <<use_memory, store, role_script>>

\* QuitCommand.execute
CmdQuit ==
    /\ Typed(TRUE)
    /\ AfterCommand(CommandResult(messages, nsfw_mode, romantic_mode, FALSE))
    /\ chat_log' = log_message(chat_log, "System", Note("Conversation ended"))
    /\ op' = "/quit"
    /\ arg' = NoPrompt
    /\ ret' = "None"
    /\ UNCHANGED <<use_memory, store, role_script>>

Next ==
    \/ DisplayIntro
    \/ TurnOk
    \/ TurnRemembered
    \/ TurnFailed
    \/ CmdReset
    \/ CmdRewind
    \/ CmdNsfw
    \/ CmdRomantic
    \/ CmdRemember
    \/ CmdSearch
    \/ CmdShow
    \/ CmdQuit

Spec == Init /\ [][Next]_vars

-----------------------------------------------------------------------------
(* SpecLog: a session whose conversation log is followed: regular lines,   *)
(* answered or not, /reset and /rewind.                                    *)

InitLog ==
    /\ InitSession({FirstN(SeedFile, SmallSeed)}, BOOLEAN)
    /\ chat_log = <<>>

\* the entries /rewind wrote to the log
RewindsLogged ==
    Len(SelectSeq(chat_log, LAMBDA e : e = LogEntry("System", Note("Rewound to previous message"))))

LG_CmdRewind ==
    /\ RewindsLogged < MaxRewinds
    /\ CmdRewind

NextLog ==
    \/ DisplayIntro
    \/ TurnOk
    \/ TurnFailed
    \/ CmdReset
    \/ LG_CmdRewind

SpecLog == InitLog /\ [][NextLog]_vars

-----------------------------------------------------------------------------
(* SpecTurns: a session with a well-filled memory file in which the user   *)
(* types lines to the bot and toggles a mode, and never takes a turn back. *)

InitTurns ==
    /\ InitSession({NoFile, FirstN(SeedFile, LargeSeed)}, {TRUE})
    /\ chat_log = NotFollowed

NextTurns ==
    \/ DisplayIntro
    \/ TurnOk
    \/ TurnFailed
    \/ CmdNsfw
    \/ CmdRomantic

SpecTurns == InitTurns /\ [][NextTurns]_vars

-----------------------------------------------------------------------------
(* Properties of ConversationManager, checked under SpecCM.                *)

\* C1: whenever add_message returns, the message sequence holds at most 50
\* (max_context_length) messages, whatever add_message, rewind_last_exchange
\* and reset_conversation calls came before.
C1_AddMessageBounded ==
    [][op' \in AddOps => Len(messages') <= max_context_length]_vars

\* an add_message call has returned with the history exactly at the bound
C1_Witness == op = "add_message" /\ Len(messages) = max_context_length

\* C2: an add_message call that pushes the length above 50 leaves exactly
\* the previous message 0, one synthetic system-role summary message, and the
\* last 20 messages of the sequence as it stood with the new message
\* appended, unchanged and in order, the new message last: 22 messages.
C2_CompactionShape ==
    [][op' \in AddOps /\ Len(messages) + 1 > max_context_length =>
          /\ Len(messages') = 22
          /\ messages'[1] = messages[1]
          /\ messages'[2].role = "system"
          /\ messages'[2].content = [kind |-> "summary", parts |-> conversation_summary']
          /\ SubSeq(messages', 3, 22) = LastN(Append(messages, NextMessage), 20)
          /\ messages'[22] = NextMessage]_vars

\* a compaction has just happened
C2_Witness ==
    /\ op = "add_message+summarize"
    /\ Len(messages) = 22
    /\ messages[2].content.kind = "summary"

\* C3 as stated: once the history is the system prompt plus 50 appended
\* messages, the next add_message call leaves exactly 22 messages: the system
\* prompt, one summary, and the last 20 messages that were in the history
\* before the call.
C3_AfterFiftyAppended ==
    [][op' \in AddOps /\ turn_count = 50 =>
          /\ Len(messages') = 22
          /\ messages'[1].role = "system"
          /\ messages'[2].content.kind = "summary"
          /\ SubSeq(messages', 3, 22) = LastN(messages, 20)]_vars

\* C3, amended: given a history of 50 messages (the system prompt plus 49
\* appended messages), the next add_message call leaves exactly 22 messages:
\* the system prompt, one summary (of messages 1..30 of the history), the
\* last 19 messages that were in the history before the call, and the
\* message the call adds, in that order.
C3_FiftiethAppend ==
    [][op' \in AddOps /\ Len(messages) = 50 =>
          /\ Len(messages') = 22
          /\ messages'[1] = messages[1]
          /\ messages'[2] = summary_message(summary_parts(SubSeq(messages, 2, 31)))
          /\ SubSeq(messages', 3, 21) = SubSeq(messages, 32, 50)
          /\ messages'[22] = NextMessage]_vars

\* the 50th append in a row has compacted the history: the first message
\* kept is the one that was appended 31st
C3_Witness ==
    /\ op \in AddOps
    /\ turn_count = 50
    /\ Len(messages) = 22
    /\ messages[3].content = PlainText(31)

\* C6: rewind_last_exchange on a history of at least 3 messages removes
\* exactly the last two messages, decrements turn_count by one and returns
\* True; on a shorter history it returns False and leaves messages,
\* turn_count and conversation_summary unchanged.
C6_RewindLastExchange ==
    [][op' = "rewind_last_exchange" =>
          IF Len(messages) >= 3
          THEN /\ messages' = SubSeq(messages, 1, Len(messages) - 2)
               /\ turn_count' = turn_count - 1
               /\ ret' = "True"
          ELSE /\ ret' = "False"
               /\ conv' = conv]_vars

\* a 3-message history has become the system-only history
C6_Witness ==
    /\ op = "rewind_last_exchange"
    /\ ret = "True"
    /\ Len(messages) = 1

\* C8: reset_conversation leaves a single system message (carrying the
\* prompt it was given, or self.system_prompt if it was given none), turn_count
\* 0 and an empty summary, and leaves the memory file, cache and index alone.
C8_ResetConversation ==
    [][op' = "reset_conversation" =>
          /\ messages' = <<Msg("system", IF arg' = NoPrompt THEN system_prompt ELSE arg')>>
          /\ turn_count' = 0
          /\ conversation_summary' = NoSummary
          /\ UNCHANGED store]_vars

\* a reset with a new prompt, the memories loaded in the cache
C8_Witness ==
    /\ op = "reset_conversation"
    /\ arg \notin {NoPrompt, system_prompt}
    /\ messages[1].content = arg
    /\ memory_cache # NoCache

-----------------------------------------------------------------------------
(* Properties of a session, checked under Spec.                            *)

\* C4: in every state of a session the message sequence is non-empty and its
\* element 0 has role system.
C4_SystemFirst == Len(messages) >= 1 /\ messages[1].role = "system"

\* a /rewind has taken the history down to the system message
C4_Witness ==
    /\ op = "/rewind"
    /\ ret = "True"
    /\ Len(messages) = 1

\* C5: a regular turn whose completion call fails leaves messages, turn_count
\* and conversation_summary as they were before the user's line was processed.
C5_FailedTurnIsNoOp ==
    [][op' = "turn_failed" => conv' = conv]_vars

\* C7: every successful /rewind removes exactly one assistant message and one
\* user message, and never a system-role message.
C7_RewindRemovesExchange ==
    [][op' = "/rewind" /\ ret' = "True" =>
          /\ messages' = SubSeq(messages, 1, Len(messages) - 2)
          /\ messages[Len(messages)].role = "assistant"
          /\ messages[Len(messages) - 1].role = "user"]_vars

\* C9: /reset leaves what reset_conversation leaves (one system message,
\* turn_count 0, empty summary) and a successful /rewind what
\* rewind_last_exchange leaves (two messages fewer, turn_count one less).
C9_CommandsAsTransitions ==
    [][/\ op' = "/reset" =>
             /\ messages' = <<Msg("system", system_prompt')>>
             /\ turn_count' = 0
             /\ conversation_summary' = NoSummary
       /\ op' = "/rewind" /\ ret' = "True" =>
             /\ messages' = SubSeq(messages, 1, Len(messages) - 2)
             /\ turn_count' = turn_count - 1]_vars

-----------------------------------------------------------------------------
(* Properties of the memory block of a turn, checked under SpecTurns.      *)

\* C10: the memory limit min(8, max(3, 10 - turn_count div 5)) lies in 3..8
\* in every state, does not grow when turn_count grows, and the block of a
\* turn's user message lists at most as many records as the limit computed
\* from turn_count as it stood before the user message was appended.
C10_MemoryLimit ==
    [][/\ memory_limit(turn_count) \in 3..8
       /\ memory_limit(turn_count') \in 3..8
       /\ memory_limit(turn_count) = Min(8, Max(3, 10 - (turn_count \div 5)))
       /\ turn_count' >= turn_count =>
             memory_limit(turn_count') <= memory_limit(turn_count)
       /\ op' = "turn_ok" =>
             Len(messages'[Len(messages') - 1].content.mem) <= memory_limit(turn_count)]_vars

\* a turn late in the conversation: the file holds more records than the
\* lowest limit, and the block lists exactly that many
C10_Witness ==
    /\ op = "turn_ok"
    /\ turn_count >= 37
    /\ Exists(memfile) /\ Len(memfile) > 3
    /\ Len(messages[Len(messages) - 1].content.mem) = 3

-----------------------------------------------------------------------------
(* Properties of MemoryManager, checked under SpecMM and SpecMMEdited.     *)

\* how often x occurs in the sequence s
CountIn(s, x) == Cardinality({i \in 1..Len(s) : s[i] = x})

\* C11: load_all_memories returns the records by importance descending and,
\* among records of equal importance, by timestamp descending (newest
\* first); load_recent_memories(limit) returns min(limit, N) records in that
\* order.
C11_NewestFirst ==
    op \in {"load_all_memories", "load_recent_memories"} =>
       /\ \A i, j \in 1..Len(ret) :
             i < j => \/ ret[i].importance > ret[j].importance
                      \/ /\ ret[i].importance = ret[j].importance
                         /\ ret[i].ts >= ret[j].ts
       /\ op = "load_recent_memories" =>
             Len(ret) = Min(arg.limit, LineCount(memfile))

\* C12: load_all_memories on a file of N well-formed lines and any number of
\* malformed lines returns exactly the N well-formed records.
C12_MalformedSkipped ==
    op = "load_all_memories" =>
       /\ Len(ret) = Len(WellFormed(Lines(memfile)))
       /\ \A i \in 1..Len(ret) :
             CountIn(ret, ret[i]) = CountIn(WellFormed(Lines(memfile)), ret[i])

\* C13: with no edits from outside, every successful append_memory adds its
\* one record to the persisted ones, and load_all_memories returns exactly
\* the records persisted so far, none missing and none twice, whether the
\* cache serves them or the file is read.
C13_LoadReturnsPersisted ==
    [][/\ op' = "append_memory" /\ arg'.written =>
             /\ Len(Lines(memfile')) = Len(Lines(memfile)) + 1
             /\ Lines(memfile')[Len(Lines(memfile'))].note = arg'.note
       /\ op' = "load_all_memories" =>
             /\ memfile' = memfile
             /\ Len(ret') = Len(Lines(memfile))
             /\ \A i \in 1..Len(ret') :
                   CountIn(ret', ret'[i]) = CountIn(Lines(memfile), ret'[i])]_vars

\* load_all_memories has returned the three records appended, through the
\* cache it filled
C13_Witness ==
    /\ op = "load_all_memories"
    /\ Len(ret) = 3
    /\ memory_cache = ret
    /\ Len(Lines(memfile)) = 3

\* C15: the importance of a note is min(10, 5 + 2*k + p) for k keyword
\* entries occurring in it and p personal patterns matching it: the same for
\* equal texts, within 1..10, and at least 7 for a note matching "my name is"
\* and "i live in".
C15_Importance ==
    /\ \A t \in TextNames :
          /\ calculate_importance(t) =
                Min(10, 5 + 2 * Cardinality(KeywordHits(t)) + Cardinality(PatternHits(t)))
          /\ calculate_importance(t) \in 1..10
          /\ {"my name is", "i live in"} \subseteq PatternHits(t) =>
                calculate_importance(t) >= 7
    /\ \A i \in 1..Len(Lines(memfile)) :
          LET m == Lines(memfile)[i]
          IN  m.importance = Min(10, 5 + 2 * Cardinality(KeywordHits(m.note))
                                       + Cardinality(PatternHits(m.note)))

\* the file holds a note whose keywords alone would take it beyond the cap,
\* and a note with the two personal patterns
C15_Witness ==
    /\ \E i \in 1..Len(Lines(memfile)) :
          Lines(memfile)[i].note = "vow" /\ Lines(memfile)[i].importance = 10
    /\ \E i \in 1..Len(Lines(memfile)) :
          Lines(memfile)[i].note = "kay" /\ Lines(memfile)[i].importance = 9

-----------------------------------------------------------------------------
(* The memory file through a session, checked under Spec.                  *)

\* C14: through every operation of a session the persisted records only
\* grow at the end: the records held before a step are held after it,
\* unchanged and in the same places, and /reset and /rewind leave them
\* exactly as they are.
C14_AppendOnly ==
    [][/\ Len(Lines(memfile)) <= Len(Lines(memfile'))
       /\ SubSeq(Lines(memfile'), 1, Len(Lines(memfile))) = Lines(memfile)
       /\ op' \in {"/reset", "/rewind"} => memfile' = memfile]_vars

\* an exchange whose reply was remembered has been rewound, and the
\* auto-memory it left is still the last record
C14_Witness ==
    /\ op = "/rewind"
    /\ ret = "True"
    /\ Len(Lines(memfile)) > SmallSeed
    /\ Lines(memfile)[Len(Lines(memfile))].tags = <<"auto">>

-----------------------------------------------------------------------------
(* Properties of search_memories, checked under SpecSearch.                *)

\* the number of tokens of the query that the note of record m holds
Matches(m, query) == Cardinality(IndexWords(m.note) \cap query)

\* the records of the file that hold a token of the query
Matching(query) ==
    {i \in 1..Len(Lines(memfile)) : Matches(Lines(memfile)[i], query) > 0}

\* C16: search_memories(query, limit) returns at most limit records.
C16_AtMostLimit ==
    op = "search_memories" => Len(ret) <= arg.limit

\* a search whose limit left out a record that holds the query's token
C16_Witness ==
    /\ op = "search_memories"
    /\ arg.limit = 1
    /\ Len(ret) = 1
    /\ Cardinality(Matching(arg.query)) >= 2

\* C17: every record search_memories returns has a note that shares at
\* least one token with the query, also when appends fell in the same second.
C17_SharesToken ==
    op = "search_memories" =>
       \A i \in 1..Len(ret) : Matches(ret[i], arg.query) > 0

\* C18: after a successful append_memory(note), a search for any word of
\* the note (4 or more word characters), with a limit of at least the number
\* of records holding that word, returns the record just appended.
C18_RoundTrip ==
    op = "append_memory" /\ arg.written =>
       \A word \in IndexWords(arg.note) :
          \A rank \in Orderings(Stamps(memfile)) :
             LET limit == Cardinality(Matching({word}))
                 found == search_memories(Mem, <<word>>, limit, rank)[2]
                 appended == Lines(memfile)[Len(Lines(memfile))]
             IN  \E i \in 1..Len(found) : found[i] = appended

\* C19: the records returned are ordered by the number of query tokens they
\* match, highest first, and no record that was left out matches more query
\* tokens than one that was returned.
C19_OrderedByMatches ==
    op = "search_memories" =>
       /\ \A i, j \in 1..Len(ret) :
             i < j => Matches(ret[i], arg.query) >= Matches(ret[j], arg.query)
       /\ \A k \in 1..Len(Lines(memfile)) :
             CountIn(ret, Lines(memfile)[k]) = 0 =>
                \A i \in 1..Len(ret) :
                   Matches(Lines(memfile)[k], arg.query) <= Matches(ret[i], arg.query)

\* the place of record m in the store order, the order of load_all_memories
StorePosition(m) ==
    LET stored == load_all_memories(Mem)[2]
    IN  CHOOSE i \in 1..Len(stored) :
           stored[i] = m /\ \A j \in 1..Len(stored) : stored[j] = m => i <= j

\* C20: among records that match the same number of query tokens the order
\* (and, under the limit, the choice) is the store order, the order of
\* load_all_memories by importance and then timestamp: no record comes
\* behind, or is left out for, one that matches as many tokens and stands
\* later in the store; for a query of one token the matching record of the
\* highest importance comes first.
C20_TiesInStoreOrder ==
    op = "search_memories" =>
       /\ \A i, j \in 1..Len(ret) :
             i < j /\ Matches(ret[i], arg.query) = Matches(ret[j], arg.query) =>
                StorePosition(ret[i]) <= StorePosition(ret[j])
       /\ \A k \in Matching(arg.query) :
             CountIn(ret, Lines(memfile)[k]) = 0 =>
                \A i \in 1..Len(ret) :
                   Matches(Lines(memfile)[k], arg.query) = Matches(ret[i], arg.query) =>
                      StorePosition(ret[i]) <= StorePosition(Lines(memfile)[k])
       /\ Cardinality(arg.query) = 1 /\ Len(ret) > 0 =>
             \A k \in Matching(arg.query) :
                Lines(memfile)[k].importance <= ret[1].importance

-----------------------------------------------------------------------------
(* Properties of the index and the store under edits from outside, checked *)
(* under SpecSearchEdited, and of a failed write, checked under SpecMM.    *)

\* C21: every record search_memories returns is an element of the list
\* load_all_memories returns within that call, also when the index holds
\* timestamps of records that were removed from the file since it was built.
C21_ReturnsStoredRecords ==
    [][op' = "search_memories" =>
          \A i \in 1..Len(ret') : CountIn(load_all_memories(Mem)[2], ret'[i]) > 0]_vars

\* a search that met, for a word of its query, a timestamp the index still
\* holds and the file has lost, and that returned a record
C21_Witness ==
    /\ op = "search_memories"
    /\ arg.limit = 2
    /\ ret # <<>>
    /\ \E w \in arg.query :
          IndexHits(keywords_index, w) \ Stamps(memfile) # {}

\* every word a note of the model holds
AllWords == UNION {IndexWords(t) : t \in TextNames}

\* C22: after a successful append_memory the index is the index of the
\* persisted store: for every token w, index[w] is the set of timestamps of
\* the records in the file whose note holds w; nothing of the earlier index
\* is left that the file does not justify.
C22_IndexOfStore ==
    op = "append_memory" /\ arg.written =>
       /\ DOMAIN keywords_index \subseteq AllWords
       /\ \A w \in AllWords :
             IndexHits(keywords_index, w) =
                {Lines(memfile)[k].ts :
                    k \in {j \in 1..Len(Lines(memfile)) :
                              w \in IndexWords(Lines(memfile)[j].note)}}

\* a successful append to a file that has lost a line to an edit from outside
C22_Witness ==
    /\ op = "append_memory"
    /\ arg.written
    /\ Len(Lines(memfile)) = 1
    /\ StoreWrites = 3

\* C23: an append_memory whose write fails returns and leaves the file, the
\* cached snapshot and the index as they were.
C23_FailedWriteIsNoOp ==
    [][op' = "append_memory" /\ ~arg'.written =>
          UNCHANGED <<memfile, mtime, memory_cache, cache_timestamp, keywords_index>>]_vars

\* a failed append that met a loaded cache and a built index
C23_Witness ==
    /\ op = "append_memory"
    /\ ~arg.written
    /\ memory_cache # NoCache
    /\ memory_cache # <<>>
    /\ DOMAIN keywords_index # {}

-----------------------------------------------------------------------------
(* Properties of extract_auto_memories, checked under SpecExtract, where   *)
(* arg.text is the response and ret the list returned.                     *)

Extracted == op = "extract_auto_memories"

\* the sentence at place k of the response carries an explicit-memory cue
ExplicitAt(k) == IsExplicit(arg.text[k])

\* the sentence at place k is a candidate: 10 to 200 characters and a cue
\* of one of the three families
CandidateAt(k) ==
    /\ TextLen(arg.text[k]) >= 10
    /\ TextLen(arg.text[k]) <= 200
    /\ (IsExplicit(arg.text[k]) \/ IsPersonal(arg.text[k]) \/ IsIntention(arg.text[k]))

Places == 1..Len(arg.text)
ExplicitCandidates == {k \in Places : CandidateAt(k) /\ ExplicitAt(k)}
OtherCandidates == {k \in Places : CandidateAt(k) /\ ~ExplicitAt(k)}

\* the first n places of the set S, in text order
FirstPlaces(S, n) ==
    [i \in 1..Min(n, Cardinality(S)) |->
        CHOOSE k \in S : Cardinality({j \in S : j < k}) = i - 1]

\* C24 as stated: at most 2 sentences are returned, and a sentence with an
\* explicit-memory cue is in the result whenever at most one other sentence
\* with an explicit-memory cue precedes it.
C24_ExplicitCueKept ==
    Extracted =>
       /\ Len(ret) <= 2
       /\ \A k \in Places :
             /\ ExplicitAt(k)
             /\ Cardinality({j \in Places : j < k /\ ExplicitAt(j)}) <= 1
             => CountIn(ret, arg.text[k]) > 0

\* C24 amended: at most 2 sentences are returned, and a sentence of 10 to
\* 200 characters with an explicit-memory cue is in the result whenever at
\* most one other such sentence precedes it.
C24_ExplicitCandidateKept ==
    Extracted =>
       /\ Len(ret) <= 2
       /\ \A k \in ExplicitCandidates :
             Cardinality({j \in ExplicitCandidates : j < k}) <= 1
             => CountIn(ret, arg.text[k]) > 0

\* a response of five sentences, four of them candidates; the second
\* explicit-cue candidate comes last, and a cue sentence is too short
C24_Witness ==
    /\ Extracted
    /\ Len(arg.text) = 5
    /\ Cardinality(ExplicitCandidates) = 2
    /\ Cardinality(OtherCandidates) = 2
    /\ 5 \in ExplicitCandidates
    /\ \E k \in Places : ExplicitAt(k) /\ ~CandidateAt(k)
    /\ Len(ret) = 2

\* C25: the result holds candidates only: the first two explicit-cue
\* candidates in text order, or, if there are fewer than two, the
\* explicit-cue candidates followed by the earliest other candidates in text
\* order up to a total of 2; with fewer than 2 candidates, all of them.
C25_ExplicitThenOthers ==
    Extracted =>
       LET explicit == FirstPlaces(ExplicitCandidates, 2)
           others == FirstPlaces(OtherCandidates, 2 - Len(explicit))
           places == explicit \o others
       IN  /\ ret = [i \in 1..Len(places) |-> arg.text[places[i]]]
           /\ Cardinality(ExplicitCandidates \cup OtherCandidates) < 2
              => Len(ret) = Cardinality(ExplicitCandidates \cup OtherCandidates)

\* one explicit-cue candidate behind two other candidates: it comes first
\* and the earlier of the two others fills the result up
C25_Witness ==
    /\ Extracted
    /\ Len(arg.text) = 4
    /\ ExplicitCandidates = {4}
    /\ Cardinality(OtherCandidates) = 2
    /\ ret = <<arg.text[4], arg.text[CHOOSE k \in OtherCandidates :
                                        \A j \in OtherCandidates : k <= j]>>

\* some occurrence of sentence a precedes some occurrence of sentence b
PrecedesInText(a, b) ==
    \E p, q \in Places : p < q /\ arg.text[p] = a /\ arg.text[q] = b

\* C26 as stated: the sentences returned are in the order of the text: if A
\* precedes B in the result, A precedes B in the text.
C26_TextOrder ==
    Extracted =>
       \A i, j \in 1..Len(ret) : i < j => PrecedesInText(ret[i], ret[j])

\* C26 amended: the explicit-cue sentences come before the others; two
\* explicit-cue sentences, and two others, are in the order of the text.
C26_ExplicitFirstThenTextOrder ==
    Extracted =>
       \A i, j \in 1..Len(ret) : i < j =>
          \/ IsExplicit(ret[i]) /\ ~IsExplicit(ret[j])
          \/ /\ IsExplicit(ret[i]) = IsExplicit(ret[j])
             /\ PrecedesInText(ret[i], ret[j])

\* an explicit-cue sentence returned ahead of another candidate that the
\* text has before it
C26_Witness ==
    /\ Extracted
    /\ Len(ret) = 2
    /\ IsExplicit(ret[1]) /\ ~IsExplicit(ret[2])
    /\ ~PrecedesInText(ret[1], ret[2])

-----------------------------------------------------------------------------
(* Properties of the session's turns and commands, checked under Spec.     *)

\* the lines the step adds at the end of the memory file
AddedLines == SubSeq(Lines(memfile'), Len(Lines(memfile)) + 1, Len(Lines(memfile')))

\* C27: a regular turn appends at most 2 records to the memory file, all
\* tagged "auto", and it has appended the reply to the history when it does;
\* a turn whose completion call fails appends no record.
C27_TurnAppendsAtMostTwo ==
    [][/\ op' = "turn_ok" =>
             /\ Lines(memfile') = Lines(memfile) \o AddedLines
             /\ Len(AddedLines) <= 2
             /\ \A k \in 1..Len(AddedLines) : AddedLines[k].tags = <<"auto">>
             /\ AddedLines # <<>> =>
                   /\ messages'[Len(messages')].role = "assistant"
                   /\ turn_count' = turn_count + 2
       /\ op' = "turn_failed" => memfile' = memfile]_vars

\* a turn that added two records, tagged "auto", behind the record the
\* session started with (the one reply of Replies that holds anything to
\* remember holds three candidates)
C27_Witness ==
    /\ op = "turn_ok"
    /\ \A reply \in Replies :
          Len(reply) > 1 =>
             \A k \in 1..Len(reply) : IsPersonal(reply[k]) \/ IsExplicit(reply[k])
    /\ Len(Lines(memfile)) = SmallSeed + 2
    /\ Lines(memfile)[SmallSeed + 1].tags = <<"auto">>
    /\ Lines(memfile)[SmallSeed + 2].tags = <<"auto">>
    /\ messages[Len(messages)].role = "assistant"

\* C28: a command with missing or malformed arguments (/remember with no
\* text, /search with no terms, /nsfw or /romantic with no argument or one
\* that is neither on nor off) leaves the messages, the turn counter, the
\* summary, the mode flags and the memory store as they were, and the
\* session goes on.
C28_UsageErrorLeavesState ==
    [][op' \in {"/remember", "/search", "/nsfw", "/romantic"} /\ ret' = "usage" =>
          /\ UNCHANGED <<conv, system_prompt, modes, store>>
          /\ pc' = "loop"]_vars

\* /nsfw with a malformed argument in a session that has had turns
C28_Witness ==
    /\ op = "/nsfw"
    /\ ret = "usage"
    /\ Len(messages) > 3
    /\ pc = "loop"

-----------------------------------------------------------------------------
(* Properties of the turn counter and of the rhythm of compaction, checked *)
(* under SpecCM and SpecAdds.                                              *)

\* C29: every add_message call increases turn_count by exactly 1, whatever
\* the role of the message and whether or not the call compacts the history.
C29_AddMessageCountsOne ==
    [][op' \in AddOps => turn_count' = turn_count + 1]_vars

\* an add_message call that compacted a history holding a system-role
\* message the client had added, and left the counter at the number of calls
C29_Witness ==
    /\ op = "add_message+summarize"
    /\ turn_count = max_context_length
    /\ Len(messages) < turn_count
    /\ \E k \in 3..Len(messages) : messages[k].role = "system"

\* the step is an add_message call that compacts: the history it leaves is
\* not the history it met with one message more
Compacts == op' \in AddOps /\ Len(messages') # Len(messages) + 1

\* C30: in a run of add_message calls without reset or rewind (turn_count
\* is the number of calls made) the calls that compact are the first one
\* that does and every 29th call after it: after a compaction the next one
\* comes at the 29th subsequent call and at none of the 28 before it.
C30_CompactionEvery29 ==
    [][op' \in AddOps /\ turn_count' >= max_context_length =>
          (Compacts <=> (turn_count' - max_context_length) % 29 = 0)]_vars

\* the second compaction of a run, 29 calls after the first
C30_Witness ==
    /\ op = "add_message+summarize"
    /\ turn_count = max_context_length + 29
    /\ Len(messages) = KeepRecent + 2
    /\ conversation_summary # NoSummary

\* C32: turn_count is never negative, whatever sequence of add_message (with
\* compaction), rewind_last_exchange and reset_conversation calls is made.
C32_TurnCountNotNegative == turn_count >= 0

\* a rewind that succeeded and left the counter at the lowest value a
\* successful rewind can leave
C32_Witness ==
    /\ op = "rewind_last_exchange" /\ ret = "True"
    /\ turn_count = 1
    /\ Len(messages) = 1

-----------------------------------------------------------------------------
(* Properties of repeated compaction, checked under SpecAdds.              *)

\* the places of a history that hold a summary message
SummaryPlaces(ms) ==
    {k \in 1..Len(ms) : ms[k].role = "system" /\ ms[k].content.kind = "summary"}

SystemPlaces(ms) == {k \in 1..Len(ms) : ms[k].role = "system"}

\* the messages a compacting add_message call elides for the first time:
\* those between the prompt (and the summary, if there is one) and the last
\* KeepRecent messages of the history with the new message appended
NewlyElided ==
    SubSeq(messages, IF SummaryPlaces(messages) = {} THEN 2 ELSE 3,
           Len(messages) + 1 - KeepRecent)

-----------------------------------------------------------------------------
(* Properties of the session's commands and turns, checked under Spec.     *)

\* C34: after a successful /rewind the message displayed as the previous
\* bot message, the new last message of the history, has role assistant.
C34_RewindShowsAssistant ==
    [][op' = "/rewind" /\ ret' = "True" =>
          messages'[Len(messages')].role = "assistant"]_vars

\* C35: in every state of the main loop the content of message 0 is the
\* system_prompt field, which is the prompt built for the current mode flags;
\* a /nsfw or /romantic toggle that changes a mode replaces the content of
\* message 0 only and keeps every other message, in order.
C35_PromptFollowsModes ==
    [][/\ messages'[1].content = system_prompt'
       /\ system_prompt' = build_system_prompt(nsfw_mode', romantic_mode')
       /\ op' \in {"/nsfw", "/romantic"} /\ ret' = "changed" =>
             /\ <<nsfw_mode', romantic_mode'>> # <<nsfw_mode, romantic_mode>>
             /\ messages'[1].role = "system"
             /\ messages'[1].content # messages[1].content
             /\ Tail(messages') = Tail(messages)]_vars

\* a toggle changed a mode on a history that compaction had rebuilt
C35_Witness ==
    /\ op \in {"/nsfw", "/romantic"} /\ ret = "changed"
    /\ SummaryPlaces(messages) = {2}
    /\ Len(messages) > 2
    /\ system_prompt # build_system_prompt(FALSE, FALSE)

\* C36: with memory disabled, the user message a regular turn appends to the
\* history is the raw user text (no memory block in front of it), and a
\* regular turn, answered or failed, leaves the memory file as it was,
\* whatever the reply says.
C36_NoMemoryTurn ==
    [][~use_memory /\ op' \in {"turn_ok", "turn_failed"} =>
          /\ memfile' = memfile
          /\ op' = "turn_ok" =>
                messages'[Len(messages') - 1] = Msg("user", PlainText(Len(messages)))]_vars

\* an answered turn of a session without memory whose memory file holds a
\* record that a session with memory would have put in front of the text
C36_Witness ==
    /\ op = "turn_ok"
    /\ ~use_memory
    /\ Exists(memfile) /\ Lines(memfile) # <<>>
    /\ messages[Len(messages) - 1].role = "user"
    /\ messages[Len(messages) - 1].content.mem = <<>>

-----------------------------------------------------------------------------
(* Properties of searches with short words, checked under SpecSearchShort. *)

\* the step is a search whose query holds no word of MinWordLength characters
ShortSearch == op' = "search_memories" /\ arg'.query = {}

\* the cached snapshot is current: load_all_memories returns it as it is
CacheCurrent ==
    /\ memory_cache # NoCache
    /\ cache_timestamp # NoTime
    /\ Exists(memfile)
    /\ mtime <= cache_timestamp

\* C37 (as it holds): search_memories on a query without a word of 4 or more
\* characters returns the empty sequence for every store and leaves the
\* memory file as it was; a cached snapshot that is current stays as it is,
\* and one that is missing or outdated is left alone or replaced by the
\* records of the file, as load_all_memories does.
C37_ShortQueryFindsNothing ==
    [][ShortSearch =>
          /\ ret' = <<>>
          /\ memfile' = memfile /\ mtime' = mtime
          /\ CacheCurrent =>
                memory_cache' = memory_cache /\ cache_timestamp' = cache_timestamp
          /\ memory_cache' \in {memory_cache, SortedMemories(Lines(memfile))}
          /\ keywords_index' \in {keywords_index, IndexOf(Lines(memfile))}]_vars

\* a query of two short words found nothing in a store of two records, with
\* room in the limit for both, and the store was loaded by the search
C37_Witness ==
    /\ op = "search_memories" /\ arg.query = {}
    /\ Len(arg.text) = 2 /\ arg.limit = 2
    /\ ret = <<>>
    /\ LineCount(memfile) = 2
    /\ memory_cache = SortedMemories(Lines(memfile))

\* C37 as stated: ... and leaves the store and the contents of the cached
\* snapshot, if there is one, unchanged.
C37_ShortQueryChangesNothing ==
    [][ShortSearch =>
          /\ ret' = <<>>
          /\ memfile' = memfile
          /\ memory_cache # NoCache => memory_cache' = memory_cache]_vars

-----------------------------------------------------------------------------
(* Properties of the conversation log, checked under SpecLog.              *)

\* the entries the step wrote to the log
LogAdded == SubSeq(chat_log', Len(chat_log) + 1, Len(chat_log'))

\* the user messages of a history
UserContents(ms) == ContentsOf(ms, "user")

====
